---- MODULE Spec2Model ----
(***************************************************************************)
(* A model of noby (src/noby.py): the Dockerfile hash chain, the image     *)
(* store (btrfs subvolumes with extended attributes, tag symlinks) and the *)
(* build state machine, one action per filesystem operation of build().    *)
(*                                                                         *)
(* Strings are Python strings.  A path below the runtime directory is a    *)
(* record [stem, init]: the sealed volume of hash h is [stem |-> h,        *)
(* init |-> FALSE] (runtime / h) and its working volume is                 *)
(* [stem |-> h, init |-> TRUE] (runtime / (h + "-init")).                  *)
(***************************************************************************)
EXTENDS Integers, Sequences, FiniteSets, TLC

VARIABLES
    volumes,            \* runtime dir: btrfs subvolumes, path -> [attrs, content, ro]
    links,              \* runtime dir: symlinks "tag-<name>", name -> target path
    context,            \* build context: source file -> st_mtime (whole seconds)
    pc,                 \* position of the build() invocation in progress, or "idle"
    args,               \* argparse namespace of the build: no_cache, rm, tag
    df,                 \* DockerfileParser object: env, from_image, build_commands, build_hashes
    parent_hash,        \* build(): the rolling parent hash
    current_build_step, \* build(): loop index (0-based, as enumerate gives it)
    cleanup_step,       \* build(): index of the cleanup loop over build_hashes[:-1]
    outcome,            \* how the last build() invocation ended
    builds,             \* number of build() invocations started
    base_hash,          \* history: parent hash resolved for the base image at start
    links_at_start,     \* history: the symlinks when the build started
    hit,                \* history: steps of this build treated as a cache hit
    touched,            \* history: steps of this build whose loop body changed the store
    executed,           \* history: steps of this build handed to an execution backend
    stray,              \* history: steps whose working volume existed when the build started
    calls,              \* history: the calc_build_hashes() calls made on df
    rpc,                \* reader: position inside find_last_build_by_name
    rname,              \* reader: the tag name looked up
    rimage,             \* reader: the path read from the symlink
    rresult,            \* reader: the value returned by the last lookup
    rpub,               \* history: the lookup has run inside one tag publication so far
    lookups,            \* number of lookups started
    wpc,                \* wipe(): position of the invocation, or "idle"
    images,             \* wipe(): r.images, the directory entries _scan found
    wleft,              \* wipe(): the entries the removal loop has still to visit
    file,               \* the Dockerfile being parsed: its physical lines
    fpos,               \* _parse_file: number of physical lines consumed
    current_line,       \* _yield_lines: the physical lines of the open continuation
    ppc                 \* _parse_file: "parsing", "done" or the exception raised

vars == <<volumes, links, context, pc, args, df, parent_hash, current_build_step,
          cleanup_step, outcome, builds, base_hash, links_at_start, hit, touched,
          executed, stray, calls, rpc, rname, rimage, rresult, rpub, lookups,
          wpc, images, wleft, file, fpos, current_line, ppc>>

wipeVars == <<wpc, images, wleft>>

parseVars == <<file, fpos, current_line, ppc>>

(***************************************************************************)
(* Bounds of the model.                                                    *)
(***************************************************************************)
MaxSteps == 2       \* build steps per Dockerfile
MaxChars == 9       \* characters of instruction arguments per Dockerfile that is built
MaxBuilds == 2      \* build() invocations per behaviour
MaxMtime == 2       \* st_mtime values of a source file
MaxCalls == 2       \* calc_build_hashes() calls on one parser object
MaxLookups == 1     \* tag lookups by the concurrent reader
MaxLines == 3       \* physical lines of a Dockerfile that is parsed

None == "None"      \* Python's None (never a hash, tag or file name)

(***************************************************************************)
(* Inputs.                                                                 *)
(***************************************************************************)
Cmds == {"host", "run", "copy"}

\* Instruction arguments.  The second is the first, followed by "run" and
\* the first again, so that two steps can spell what one step spells.
ArgStrings == {"s d", "s druns d"}

Steps == Cmds \X ArgStrings

TagNames == {"t"}

Files == {"s"}

EmptyEnv == [k \in {} |-> ""]

Envs == {EmptyEnv, [k \in {"X"} |-> "1"]}

SeqsUpTo(S, n) == UNION {[1..k -> S] : k \in 1..n}

\* shlex.split on the instruction arguments of the model
shlex_split(cmdargs) ==
    IF cmdargs = "s d" THEN <<"s", "d">> ELSE <<"s", "druns", "d">>

Max(a, b) == IF a > b THEN a ELSE b

RECURSIVE NewestOf(_, _, _)
NewestOf(ctx, srcs, mtime) ==
    IF srcs = <<>> THEN mtime
    ELSE NewestOf(ctx, Tail(srcs),
                  IF Head(srcs) \in DOMAIN ctx THEN Max(mtime, ctx[Head(srcs)])
                  ELSE mtime)

\* newest_file(context, cmdargs): the largest st_mtime below the source paths
newest_file(ctx, cmdargs) ==
    LET words == shlex_split(cmdargs)
        srcs == SubSeq(words, 1, Len(words) - 1)
    IN  NewestOf(ctx, srcs, 0)

(***************************************************************************)
(* DockerfileParser.                                                       *)
(***************************************************************************)
\* sha256(data).hexdigest(), taken to be collision free: the digest names its
\* input, and no instruction text contains the brackets.
hexdigest(data) == "<" \o data \o ">"

\* A parser object right after DockerfileParser(dockerfile)
Parser(from_image, env, build_commands) ==
    [env |-> env, from_image |-> from_image,
     build_commands |-> build_commands, build_hashes |-> <<>>]

RECURSIVE UpdateAll(_, _, _)
\* the loop of calc_build_hashes: the digests appended for `commands`
UpdateAll(data, commands, hashes) ==
    IF commands = <<>> THEN hashes
    ELSE LET cmd == Head(commands)[1]
             cmdargs == Head(commands)[2]
             fed == (data \o cmd) \o cmdargs
         IN  UpdateAll(fed, Tail(commands), Append(hashes, hexdigest(fed)))

calc_build_hashes_noargs(d, parent) ==
    [d EXCEPT !.build_hashes =
        UpdateAll(IF parent # "" /\ parent # None THEN parent ELSE "",
                  [k \in DOMAIN d.build_commands |-> <<d.build_commands[k][1], "">>],
                  d.build_hashes)]

\* DockerfileParser.calc_build_hashes(parent_hash): appends to self.build_hashes
calc_build_hashes(d, parent) ==
    [d EXCEPT !.build_hashes =
        UpdateAll(IF parent # "" /\ parent # None THEN parent ELSE "",
                  d.build_commands, d.build_hashes)]

Last(s) == s[Len(s)]


(***************************************************************************)
(* The image store: btrfs subvolumes, extended attributes and symlinks.    *)
(***************************************************************************)
Sealed(h) == [stem |-> h, init |-> FALSE]      \* runtime / h

Working(h) == [stem |-> h, init |-> TRUE]      \* runtime / (h + "-init")

\* Path.name
name_of(path) == path.stem \o (IF path.init THEN "-init" ELSE "")

NoAttrs == [k \in {} |-> ""]

\* btrfs subvolume create: a new empty writable subvolume
btrfs_subvol_create(vols, path) ==
    vols @@ (path :> [attrs |-> NoAttrs, content |-> <<>>, ro |-> FALSE])

\* btrfs subvolume delete
btrfs_subvol_delete(vols, path) ==
    [p \in DOMAIN vols \ {path} |-> vols[p]]

\* (a snapshot that clones the files but not the extended attributes)
btrfs_subvol_snapshot_noattrs(vols, src, dest, readonly) ==
    [p \in DOMAIN vols \cup {dest} |->
        IF p = dest
        THEN [attrs |-> [k \in {} |-> ""], content |-> vols[src].content, ro |-> readonly]
        ELSE vols[p]]

\* btrfs subvolume snapshot [-r]: files and extended attributes are cloned
btrfs_subvol_snapshot(vols, src, dest, readonly) ==
    (dest :> [vols[src] EXCEPT !.ro = readonly]) @@ vols

setxattr(vols, path, key, val) ==
    [vols EXCEPT ![path].attrs = (key :> val) @@ @]

\* os.removexattr inside try/except: a missing key is not an error
removexattr(vols, path, key) ==
    [vols EXCEPT ![path].attrs = [k \in DOMAIN @ \ {key} |-> @[k]]]

\* os.getxattr inside try/except, with the default the caller set beforehand
getxattr(vols, path, key, default) ==
    IF key \in DOMAIN vols[path].attrs THEN vols[path].attrs[key] ELSE default

\* Path.exists() of a symlink in the runtime directory: follows the link
link_exists(lnks, vols, name) ==
    name \in DOMAIN lnks /\ lnks[name] \in DOMAIN vols

find_last_build_by_name_dangling(lnks, vols, name) ==
    IF name \notin DOMAIN lnks THEN None
    ELSE IF lnks[name].init THEN None
    ELSE name_of(lnks[name])

\* ImageStorage.find_last_build_by_name, run with no writer in between
find_last_build_by_name(lnks, vols, name) ==
    IF ~link_exists(lnks, vols, name) THEN None          \* Tag does not exist
    ELSE IF lnks[name] \notin DOMAIN vols THEN None      \* Tag points to non existing image
    ELSE IF lnks[name].init THEN None                    \* Tag points to invalid image
    ELSE name_of(lnks[name])                             \* its a valid image


(***************************************************************************)
(* build(args): the state machine.  Every filesystem operation is one      *)
(* action, so that an interruption can fall between any two of them.       *)
(***************************************************************************)
\* The Dockerfiles that are built: FROM scratch or FROM a tag, no step or
\* up to MaxSteps steps, and at most MaxChars characters of arguments in all
BuildSteps == {<<"run", "s d">>, <<"run", "s druns d">>, <<"copy", "s d">>}

RECURSIVE Chars(_)
Chars(commands) ==
    IF commands = <<>> THEN 0 ELSE Len(Head(commands)[2]) + Chars(Tail(commands))

BuildCommands ==
    {c \in {<<>>} \cup SeqsUpTo(BuildSteps, MaxSteps) : Chars(c) <= MaxChars}

BuildDockerfiles ==
    {Parser(f, EmptyEnv, c) : f \in {"scratch"} \cup TagNames, c \in BuildCommands}

\* The builds the concurrent reader is run against: one step, published as a tag
TaggedDockerfiles ==
    {d \in BuildDockerfiles : d.from_image = "scratch" /\ Len(d.build_commands) = 1}

BuildArgs == [no_cache : BOOLEAN, rm : BOOLEAN, tag : {None} \cup TagNames]

total_build_steps == Len(df.build_commands)

build_step_hash == df.build_hashes[current_build_step + 1]

cmd == df.build_commands[current_build_step + 1][1]

cmdargs == df.build_commands[current_build_step + 1][2]

target == Working(build_step_hash)

final_target == Sealed(build_step_hash)

tmp_name(tag) == tag \o "-tmp"      \* "tag-" + args.tag + "-tmp", without the "tag-"

\* build() returns or raises: the invocation is over
Return(how) ==
    /\ pc' = "idle"
    /\ outcome' = how

Goto(where) ==
    /\ pc' = where
    /\ outcome' = outcome

\* where build() goes once the cleanup loop is over
AfterCleanup(a) ==
    IF a.tag # None THEN Goto("tag_unlink") ELSE Return("ok")

\* (a cleanup that takes every hash of the chain for an intermediate)
intermediates_all(hashes) == hashes

\* df.build_hashes[:-1]
intermediates(hashes) == SubSeq(hashes, 1, Len(hashes) - 1)

\* where build() goes once the step loop is over
AfterLoop(a, hashes) ==
    IF a.rm /\ intermediates(hashes) # <<>> THEN Goto("cleanup") ELSE AfterCleanup(a)

\* the end of one iteration of the step loop
NextStep ==
    /\ parent_hash' = build_step_hash
    /\ current_build_step' = current_build_step + 1
    /\ IF current_build_step + 1 < total_build_steps
       THEN Goto("checks")
       ELSE AfterLoop(args, df.build_hashes)

CacheHitFallThrough ==
    /\ parent_hash' = build_step_hash
    /\ current_build_step' = current_build_step
    /\ Goto("incomplete")

\* lines 230-232: "Using cached image", the step is skipped
CacheHitContinue == NextStep

already_built_first(a, vols, hashes) ==
    ~a.no_cache /\ a.rm /\ Sealed(hashes[1]) \in DOMAIN vols

\* "Early exit if image is already built"
already_built(a, vols, hashes) ==
    ~a.no_cache /\ a.rm /\ Sealed(Last(hashes)) \in DOMAIN vols

readerVars == <<rpc, rname, rimage, rresult, rpub, lookups>>

\* lines 167-201: parse, locate the base image, hash, early exit
StartBuild(d, a) ==
    /\ pc = "idle"
    /\ builds < MaxBuilds
    /\ builds' = builds + 1
    /\ args' = a
    /\ links_at_start' = links
    /\ hit' = {} /\ touched' = {} /\ executed' = {}
    /\ cleanup_step' = 0
    /\ current_build_step' = 0
    /\ rpub' = FALSE
    /\ UNCHANGED <<volumes, links, context, calls, rpc, rname, rimage, rresult, lookups>>
    /\ UNCHANGED wipeVars /\ UNCHANGED parseVars
    /\ IF d.build_commands = <<>>
       THEN /\ df' = d
            /\ Return("nothing")
            /\ UNCHANGED <<parent_hash, base_hash, stray>>
       ELSE LET found == IF d.from_image # "scratch"
                         THEN find_last_build_by_name(links, volumes, d.from_image)
                         ELSE ""
            IN  IF d.from_image # "scratch" /\ (found = None \/ found = "")
                THEN /\ df' = d
                     /\ Return("error")
                     /\ UNCHANGED <<parent_hash, base_hash, stray>>
                ELSE LET hashed == calc_build_hashes(d, found)
                     IN  /\ df' = hashed
                         /\ parent_hash' = found
                         /\ base_hash' = found
                         /\ stray' = {i \in 0..(Len(hashed.build_hashes) - 1) :
                                        Working(hashed.build_hashes[i + 1]) \in DOMAIN volumes}
                         /\ IF already_built(a, volumes, hashed.build_hashes)
                            THEN Return("already_built")
                            ELSE Goto("checks")

buildLocals == <<args, df, builds, base_hash, links_at_start, stray, calls, context,
                 wpc, images, wleft, file, fpos, current_line, ppc>>

\* the branch taken for a sealed volume that exists and may serve as cache
UsingCachedImage(vols, final, parent) ==
    ~(parent # "" /\ parent # getxattr(vols, final, "user.parent_hash", ""))

\* lines 216-232: "parent image checks"
ParentImageChecks ==
    /\ pc = "checks"
    /\ UNCHANGED <<links, cleanup_step, executed>>
    /\ UNCHANGED buildLocals /\ UNCHANGED readerVars
    /\ IF final_target \in DOMAIN volumes
       THEN IF args.no_cache
            THEN /\ volumes' = btrfs_subvol_delete(volumes, final_target)
                 /\ touched' = touched \cup {current_build_step}
                 /\ Goto("incomplete")
                 /\ UNCHANGED <<parent_hash, current_build_step, hit>>
            ELSE IF UsingCachedImage(volumes, final_target, parent_hash)
                 THEN /\ hit' = hit \cup {current_build_step}
                      /\ CacheHitContinue
                      /\ UNCHANGED <<volumes, touched>>
                 ELSE /\ volumes' = btrfs_subvol_delete(volumes, final_target)
                      /\ touched' = touched \cup {current_build_step}
                      /\ Goto("incomplete")
                      /\ UNCHANGED <<parent_hash, current_build_step, hit>>
       ELSE /\ Goto("incomplete")
            /\ UNCHANGED <<volumes, parent_hash, current_build_step, hit, touched>>

delete_incomplete_never(vols, t) == vols

\* lines 234-236: "Deleting incomplete image"
delete_incomplete(vols, t) ==
    IF t \in DOMAIN vols THEN btrfs_subvol_delete(vols, t) ELSE vols

DeleteIncomplete ==
    /\ pc = "incomplete"
    /\ volumes' = delete_incomplete(volumes, target)
    /\ touched' = IF volumes' # volumes THEN touched \cup {current_build_step} ELSE touched
    /\ Goto("derive")
    /\ UNCHANGED <<links, cleanup_step, executed, parent_hash, current_build_step, hit>>
    /\ UNCHANGED buildLocals /\ UNCHANGED readerVars

\* lines 238-241: the working volume, a snapshot of the parent or a new one.
\* btrfs fails when the source is missing or the new volume's path is taken
\* (a snapshot onto an existing directory lands inside it and leaves it as
\* it is).
DeriveWorkingVolume ==
    /\ pc = "derive"
    /\ touched' = touched \cup {current_build_step}
    /\ UNCHANGED <<links, cleanup_step, executed, parent_hash, current_build_step, hit>>
    /\ UNCHANGED buildLocals /\ UNCHANGED readerVars
    /\ IF parent_hash # ""
       THEN IF Sealed(parent_hash) \notin DOMAIN volumes
            THEN Return("error") /\ UNCHANGED volumes
            ELSE IF target \in DOMAIN volumes
                 THEN Goto("exec") /\ UNCHANGED volumes
                 ELSE /\ volumes' = btrfs_subvol_snapshot(volumes, Sealed(parent_hash), target, FALSE)
                      /\ Goto("exec")
       ELSE IF target \in DOMAIN volumes
            THEN Return("error") /\ UNCHANGED volumes
            ELSE /\ volumes' = btrfs_subvol_create(volumes, target)
                 /\ Goto("exec")

\* (a backend failure that is ignored: the step goes on to be sealed)
CalledProcessIgnored == Goto("seal_parent")

\* subprocess.run(check=True) raises CalledProcessError, which leaves build
CalledProcessError == Return("error")

\* lines 243-268: the execution backend of the step kind runs on the working
\* volume; it succeeds, or it fails (check=True raises) having written
\* nothing or part of its output
RunBuildStep ==
    /\ pc = "exec"
    /\ executed' = executed \cup {current_build_step}
    /\ touched' = touched \cup {current_build_step}
    /\ UNCHANGED <<links, cleanup_step, parent_hash, current_build_step, hit>>
    /\ UNCHANGED buildLocals /\ UNCHANGED readerVars
    /\ \/ /\ volumes' = [volumes EXCEPT ![target].content = Append(@, <<cmd, cmdargs>>)]
          /\ Goto("seal_parent")
       \/ /\ \E partial \in BOOLEAN :
                volumes' = IF partial
                           THEN [volumes EXCEPT ![target].content =
                                    Append(@, <<cmd, cmdargs, "failed">>)]
                           ELSE volumes
          /\ CalledProcessError

\* what the name cmd is bound to when the volume is sealed: the copy branch
\* rebinds it to the cp argument list (lines 265-267)
cmd_at_seal ==
    IF cmd = "copy" THEN "['cp', '-rv', ...]" ELSE cmd

sealLocals == <<links, cleanup_step, executed, parent_hash, current_build_step, hit>>

\* line 271
SealParentHash ==
    /\ pc = "seal_parent"
    /\ volumes' = setxattr(volumes, target, "user.parent_hash", parent_hash)
    /\ touched' = touched \cup {current_build_step}
    /\ Goto("seal_remove")
    /\ UNCHANGED sealLocals /\ UNCHANGED buildLocals /\ UNCHANGED readerVars

\* lines 272-276
SealRemoveCmdAttrs ==
    /\ pc = "seal_remove"
    /\ volumes' = removexattr(removexattr(volumes, target, "user.cmd.host"),
                              target, "user.cmd.run")
    /\ touched' = touched \cup {current_build_step}
    /\ Goto("seal_cmd")
    /\ UNCHANGED sealLocals /\ UNCHANGED buildLocals /\ UNCHANGED readerVars

\* line 277
SealCmdAttr ==
    /\ pc = "seal_cmd"
    /\ volumes' = setxattr(volumes, target, "user.cmd." \o cmd_at_seal, cmdargs)
    /\ touched' = touched \cup {current_build_step}
    /\ Goto("snapshot")
    /\ UNCHANGED sealLocals /\ UNCHANGED buildLocals /\ UNCHANGED readerVars

\* line 279
SealSnapshot ==
    /\ pc = "snapshot"
    /\ volumes' = btrfs_subvol_snapshot(volumes, target, final_target, TRUE)
    /\ touched' = touched \cup {current_build_step}
    /\ Goto("delete_target")
    /\ UNCHANGED sealLocals /\ UNCHANGED buildLocals /\ UNCHANGED readerVars

\* lines 280-282
SealDeleteTarget ==
    /\ pc = "delete_target"
    /\ volumes' = btrfs_subvol_delete(volumes, target)
    /\ touched' = touched \cup {current_build_step}
    /\ NextStep
    /\ UNCHANGED <<links, cleanup_step, executed, hit>>
    /\ UNCHANGED buildLocals /\ UNCHANGED readerVars

\* lines 284-291: one iteration of the loop over build_hashes[:-1]
Cleanup ==
    /\ pc = "cleanup"
    /\ LET build_hash == intermediates(df.build_hashes)[cleanup_step + 1]
       IN  volumes' = IF Sealed(build_hash) \in DOMAIN volumes
                      THEN btrfs_subvol_delete(volumes, Sealed(build_hash))
                      ELSE volumes
    /\ cleanup_step' = cleanup_step + 1
    /\ IF cleanup_step + 1 < Len(intermediates(df.build_hashes))
       THEN Goto("cleanup")
       ELSE AfterCleanup(args)
    /\ UNCHANGED <<links, executed, parent_hash, current_build_step, hit, touched>>
    /\ UNCHANGED buildLocals /\ UNCHANGED readerVars


(***************************************************************************)
(* Tag publication, lines 295-301.                                         *)
(***************************************************************************)
unlink_tmp_and_tag(lnks, vols, tag) ==
    [n \in DOMAIN lnks \ {tmp_name(tag), tag} |-> lnks[n]]

\* lines 297-298: a leftover temporary symlink is removed when exists() sees it
unlink_tmp(lnks, vols, tag) ==
    IF link_exists(lnks, vols, tmp_name(tag))
    THEN [n \in DOMAIN lnks \ {tmp_name(tag)} |-> lnks[n]]
    ELSE lnks

\* line 300, os.replace(src, dst): rename(2), atomic
os_replace(lnks, src, dst) ==
    [n \in (DOMAIN lnks \ {src}) \cup {dst} |-> IF n = dst THEN lnks[src] ELSE lnks[n]]

tag_target_working(hash) == Working(hash)

\* line 299: the symlink's target, str(runtime / parent_hash)
tag_target(hash) == Sealed(hash)

tagLocals == <<volumes, cleanup_step, executed, parent_hash, current_build_step, hit, touched>>

TagUnlinkTmp ==
    /\ pc = "tag_unlink"
    /\ links' = unlink_tmp(links, volumes, args.tag)
    /\ Goto("tag_symlink")
    /\ UNCHANGED tagLocals /\ UNCHANGED buildLocals /\ UNCHANGED readerVars

\* line 299: os.symlink raises FileExistsError when the name is taken
TagSymlink ==
    /\ pc = "tag_symlink"
    /\ IF tmp_name(args.tag) \in DOMAIN links
       THEN Return("error") /\ UNCHANGED links
       ELSE /\ links' = (tmp_name(args.tag) :> tag_target(parent_hash)) @@ links
            /\ Goto("tag_replace")
    /\ UNCHANGED tagLocals /\ UNCHANGED buildLocals /\ UNCHANGED readerVars

TagReplace ==
    /\ pc = "tag_replace"
    /\ links' = os_replace(links, tmp_name(args.tag), args.tag)
    /\ Return("ok")
    /\ UNCHANGED tagLocals /\ UNCHANGED buildLocals /\ UNCHANGED readerVars

\* The process is interrupted (section 5: cancellation is process termination)
Interrupt ==
    /\ pc # "idle"
    /\ Return("interrupted")
    /\ UNCHANGED <<volumes, links, cleanup_step, executed, parent_hash,
                   current_build_step, hit, touched>>
    /\ UNCHANGED buildLocals /\ UNCHANGED readerVars

(***************************************************************************)
(* A concurrent reader of a tag: find_last_build_by_name, lines 117-130,   *)
(* one action per system call.                                             *)
(***************************************************************************)
PublicationPcs == {"tag_unlink", "tag_symlink", "tag_replace"}

buildVars == <<volumes, links, context, pc, args, df, parent_hash, current_build_step,
               cleanup_step, outcome, builds, base_hash, links_at_start, hit, touched,
               executed, stray, calls, wpc, images, wleft, file, fpos, current_line, ppc>>

\* line 120, link.exists()
ReaderLinkExists(name) ==
    /\ rpc = "idle"
    /\ lookups < MaxLookups
    /\ lookups' = lookups + 1
    /\ rname' = name
    /\ rimage' = None
    /\ rpub' = (pc \in PublicationPcs /\ args.tag = name)
    /\ IF link_exists(links, volumes, name)
       THEN rpc' = "readlink" /\ rresult' = "pending"
       ELSE rpc' = "idle" /\ rresult' = None
    /\ UNCHANGED buildVars

\* line 123, os.readlink
ReaderReadlink ==
    /\ rpc = "readlink"
    /\ IF rname \in DOMAIN links
       THEN rimage' = links[rname] /\ rpc' = "image_exists" /\ rresult' = rresult
       ELSE rimage' = rimage /\ rpc' = "idle" /\ rresult' = "OSError"
    /\ UNCHANGED <<rname, rpub, lookups>>
    /\ UNCHANGED buildVars

\* lines 124-130, image.exists() and the -init test
ReaderImageExists ==
    /\ rpc = "image_exists"
    /\ rpc' = "idle"
    /\ rresult' = IF rimage \notin DOMAIN volumes THEN None
                  ELSE IF rimage.init THEN None
                  ELSE name_of(rimage)
    /\ UNCHANGED <<rname, rimage, rpub, lookups>>
    /\ UNCHANGED buildVars

(***************************************************************************)
(* The specification of builds and lookups in one runtime directory.       *)
(***************************************************************************)
NoVolumes == [p \in {} |-> [attrs |-> NoAttrs, content |-> <<>>, ro |-> FALSE]]

NoLinks == [n \in {} |-> Sealed("")]

Init ==
    /\ volumes = NoVolumes
    /\ links = NoLinks
    /\ context = [f \in Files |-> 1]
    /\ pc = "idle"
    /\ args = [no_cache |-> FALSE, rm |-> FALSE, tag |-> None]
    /\ df = Parser("scratch", EmptyEnv, <<>>)
    /\ parent_hash = ""
    /\ current_build_step = 0
    /\ cleanup_step = 0
    /\ outcome = "none"
    /\ builds = 0
    /\ base_hash = ""
    /\ links_at_start = NoLinks
    /\ hit = {} /\ touched = {} /\ executed = {} /\ stray = {}
    /\ calls = <<>>
    /\ rpc = "idle" /\ rname = None /\ rimage = None /\ rresult = "none"
    /\ rpub = FALSE
    /\ lookups = 0
    /\ wpc = "idle" /\ images = <<>> /\ wleft = {}
    /\ file = <<>> /\ fpos = 0 /\ current_line = <<>> /\ ppc = "done"

Build ==
    \/ \E d \in BuildDockerfiles, a \in BuildArgs : StartBuild(d, a)
    \/ ParentImageChecks
    \/ DeleteIncomplete
    \/ DeriveWorkingVolume
    \/ RunBuildStep
    \/ SealParentHash
    \/ SealRemoveCmdAttrs
    \/ SealCmdAttr
    \/ SealSnapshot
    \/ SealDeleteTarget
    \/ Cleanup
    \/ TagUnlinkTmp
    \/ TagSymlink
    \/ TagReplace
    \/ Interrupt

Reader ==
    \/ \E name \in TagNames : ReaderLinkExists(name)
    \/ ReaderReadlink
    \/ ReaderImageExists

Next == Build

Spec == Init /\ [][Next]_vars

\* Tagged builds with a concurrent reader of the tag
TaggedBuild ==
    \/ \E d \in TaggedDockerfiles, a \in {b \in BuildArgs : b.tag # None} : StartBuild(d, a)
    \/ ParentImageChecks
    \/ DeleteIncomplete
    \/ DeriveWorkingVolume
    \/ RunBuildStep
    \/ SealParentHash
    \/ SealRemoveCmdAttrs
    \/ SealCmdAttr
    \/ SealSnapshot
    \/ SealDeleteTarget
    \/ TagUnlinkTmp
    \/ TagSymlink
    \/ TagReplace
    \/ Interrupt

NextReader == TaggedBuild \/ Reader

SpecReader == Init /\ [][NextReader]_vars

(***************************************************************************)
(* DockerfileParser: _yield_lines, _line_parser, _populate_vars.           *)
(* A physical line is kept stripped and already cut where the code cuts    *)
(* it: `word` is the text before the first blank, `pieces` the text after  *)
(* it split at every "=", so that the line reads                           *)
(* word " " pieces[1] "=" pieces[2] ...; a line of one word has no pieces. *)
(* `cont` says that the line ends with a backslash.                        *)
(***************************************************************************)
TextLine(word, pieces, cont) ==
    [kind |-> "text", word |-> word, pieces |-> pieces, cont |-> cont]

\* "# <text>": the text after the marker, cut at "=" like any other
CommentLine(pieces) ==
    [kind |-> "comment", word |-> "#", pieces |-> pieces, cont |-> FALSE]

BlankLine == [kind |-> "blank", word |-> "", pieces |-> <<>>, cont |-> FALSE]

PhysLines ==
    { TextLine("FROM", <<"scratch">>, FALSE),
      TextLine("ENV", <<"bla", "bla">>, FALSE),
      CommentLine(<<"ENV not", "not">>),
      BlankLine,
      TextLine("HOST", <<"echo">>, FALSE),
      TextLine("COPY", <<"bla bla">>, FALSE),
      TextLine("RUN", <<"bla">>, FALSE),
      TextLine("env", <<"bla", "a", "b">>, FALSE),
      TextLine("ENV", <<"X">>, FALSE),
      TextLine("RUN", <<"a \\">>, TRUE),
      TextLine("RUN", <<>>, FALSE) }

DockerfileTexts == {<<>>} \cup SeqsUpTo(PhysLines, MaxLines)

\* str.lower on the directive words of the model
lower(word) ==
    CASE word \in {"ENV", "env"} -> "env"
      [] word = "FROM" -> "from"
      [] word = "HOST" -> "host"
      [] word = "COPY" -> "copy"
      [] word = "RUN" -> "run"
      [] OTHER -> word

RECURSIVE Join(_, _)
\* sep.join(pieces)
Join(pieces, sep) ==
    IF pieces = <<>> THEN ""
    ELSE IF Len(pieces) = 1 THEN pieces[1]
    ELSE pieces[1] \o sep \o Join(Tail(pieces), sep)

\* a stripped physical line cut at "=" as a whole, its first word included
split_eq(line) ==
    IF line.pieces = <<>> THEN <<line.word>>
    ELSE <<line.word \o " " \o line.pieces[1]>> \o Tail(line.pieces)

RECURSIVE AllPieces(_)
\* "\n".join(ls) cut at "=", the first word included
AllPieces(ls) ==
    IF Len(ls) = 1 THEN split_eq(ls[1])
    ELSE LET a == split_eq(ls[1])
             b == AllPieces(Tail(ls))
         IN  SubSeq(a, 1, Len(a) - 1) \o <<Last(a) \o "\n" \o b[1]>> \o Tail(b)

\* "\n".join(current_line) as a line again: the word of the first line and
\* all the text after it (a line that is continued has text after its word)
join_lines(ls) ==
    IF Len(ls) = 1 THEN ls[1]
    ELSE LET a == ls[1].pieces
             b == AllPieces(Tail(ls))
         IN  TextLine(ls[1].word,
                      SubSeq(a, 1, Len(a) - 1) \o <<Last(a) \o "\n" \o b[1]>> \o Tail(b),
                      FALSE)

\* _line_parser: (cmd, args) of a yielded line, args kept cut at "=";
\* split(" ", 1) of a single word cannot be unpacked into cmd, args
line_parser_raises(line) == line.kind = "text" /\ line.pieces = <<>>

line_parser(line) ==
    CASE line.kind = "comment" -> <<"#", line.pieces>>
      [] line.kind = "blank" -> <<"", <<>>>>
      [] OTHER -> <<line.word, line.pieces>>

\* (an environment that keeps the first binding of a name)
populate_env_first(env, rawenv) ==
    LET env_name == Head(rawenv)
    IN  [n \in DOMAIN env \cup {env_name} |->
            IF n \in DOMAIN env THEN env[n] ELSE Join(Tail(rawenv), "=")]

\* _populate_env: env_name, *value = rawenv.split("="); "=".join(value)
populate_env(env, rawenv) ==
    LET env_name == Head(rawenv)
    IN  [n \in DOMAIN env \cup {env_name} |->
            IF n = env_name THEN Join(Tail(rawenv), "=") ELSE env[n]]

\* _populate_vars(cmd, args, raw) on the parser d
populate_vars(d, c, a) ==
    IF c = "" THEN d
    ELSE IF lower(c) = "env" THEN [d EXCEPT !.env = populate_env(d.env, a)]
    ELSE IF lower(c) \in {"host", "run", "copy"}
         THEN [d EXCEPT !.build_commands = Append(@, <<lower(c), Join(a, "=")>>)]
    ELSE IF lower(c) = "from" THEN [d EXCEPT !.from_image = Join(a, "=")]
    ELSE d

parseFrame == <<volumes, links, context, pc, args, parent_hash, current_build_step,
                cleanup_step, outcome, builds, base_hash, links_at_start, hit, touched,
                executed, stray, calls, rpc, rname, rimage, rresult, rpub, lookups,
                wpc, images, wleft, file>>

\* one yielded line through _line_parser and _populate_vars
Yield(line) ==
    IF line_parser_raises(line)
    THEN ppc' = "ValueError" /\ df' = df
    ELSE /\ ppc' = "parsing"
         /\ df' = populate_vars(df, line_parser(line)[1], line_parser(line)[2])

\* one pass of the loop of _yield_lines, with the loop body of _parse_file
\* run on the line it yields
ParseLine ==
    /\ ppc = "parsing"
    /\ fpos < Len(file)
    /\ fpos' = fpos + 1
    /\ LET string == file[fpos + 1]
       IN  IF string.kind \in {"comment", "blank"}
           THEN Yield(string) /\ current_line' = current_line
           ELSE IF string.cont
           THEN /\ current_line' = Append(current_line, string)
                /\ ppc' = ppc /\ df' = df
           ELSE /\ Yield(join_lines(Append(current_line, string)))
                /\ current_line' = <<>>
    /\ UNCHANGED parseFrame

\* the input is exhausted: an open continuation is never yielded
ParseEnd ==
    /\ ppc = "parsing"
    /\ fpos = Len(file)
    /\ ppc' = "done"
    /\ current_line' = <<>>
    /\ UNCHANGED <<df, fpos>>
    /\ UNCHANGED parseFrame

\* DockerfileParser(dockerfile) on every Dockerfile text of the model
ParseInit ==
    /\ volumes = [p \in {} |-> 0]
    /\ links = [n \in {} |-> 0]
    /\ context = [f \in Files |-> 1]
    /\ pc = "idle"
    /\ args = [no_cache |-> FALSE, rm |-> FALSE, tag |-> None]
    /\ df = Parser(None, EmptyEnv, <<>>)
    /\ parent_hash = ""
    /\ current_build_step = 0
    /\ cleanup_step = 0
    /\ outcome = "none"
    /\ builds = 0
    /\ base_hash = ""
    /\ links_at_start = [n \in {} |-> 0]
    /\ hit = {} /\ touched = {} /\ executed = {} /\ stray = {}
    /\ calls = <<>>
    /\ rpc = "idle" /\ rname = None /\ rimage = None /\ rresult = "none"
    /\ rpub = FALSE
    /\ lookups = 0
    /\ wpc = "idle" /\ images = <<>> /\ wleft = {}
    /\ file \in DockerfileTexts
    /\ fpos = 0 /\ current_line = <<>> /\ ppc = "parsing"

NextParse == ParseLine \/ ParseEnd

SpecParse == ParseInit /\ [][NextParse]_vars

\* The physical line i of f continues a directive opened before it
Continues(f, i) ==
    \E j \in 1..(i - 1) :
        /\ f[j].kind = "text" /\ f[j].cont
        /\ \A k \in (j + 1)..(i - 1) : f[k].kind # "text"

\* The non-comment ENV directives of f, by the line that opens them
EnvDirectives(f) ==
    {i \in 1..Len(f) :
        f[i].kind = "text" /\ lower(f[i].word) = "env" /\ ~Continues(f, i)}

EnvName(line) == Head(line.pieces)

\* The bindings of the ENV directives of f, the last one of a name winning
ExpectedEnv(f) ==
    [n \in {EnvName(f[i]) : i \in EnvDirectives(f)} |->
        LET last == CHOOSE i \in EnvDirectives(f) :
                        /\ EnvName(f[i]) = n
                        /\ \A j \in EnvDirectives(f) : EnvName(f[j]) = n => j <= i
        IN  Join(Tail(f[last].pieces), "=")]

\* C12: after a parse the environment holds exactly the bindings of the
\* non-comment ENV directives, the last binding of a name winning; a line
\* that is not an ENV directive (comment, blank, FROM, HOST, RUN, COPY)
\* leaves the environment as it was; ENV and FROM are never build steps.
C12_EnvIsExactlyEnvDirectives ==
    /\ [](ppc = "done" =>
            /\ df.env = ExpectedEnv(file)
            /\ \A i \in 1..Len(df.build_commands) :
                    df.build_commands[i][1] \in {"host", "run", "copy"})
    /\ [][(fpos' = fpos + 1 /\ ~(fpos' \in EnvDirectives(file))) => df'.env = df.env]_vars

\* The recipe of test_load followed by a second binding of the same name,
\* parsed to the end: the commented-out ENV is not bound, the last one wins.
C12_Witness ==
    /\ ppc = "done"
    /\ Len(file) = 3
    /\ file[1] = TextLine("ENV", <<"bla", "bla">>, FALSE)
    /\ file[2] = CommentLine(<<"ENV not", "not">>)
    /\ file[3] = TextLine("env", <<"bla", "a", "b">>, FALSE)
    /\ df.env = [n \in {"bla"} |-> "a=b"]

(***************************************************************************)
(* wipe: ImageStorage._scan lists the runtime directory, then every entry  *)
(* is removed, pointers by unlink and volumes by the backend.              *)
(* A directory entry is [tag, stem, init]: a pointer "tag-<stem>" or a     *)
(* volume "<stem>" / "<stem>-init".  Volume names are hex digests, so only *)
(* pointer names start with "tag".                                         *)
(***************************************************************************)
LinkEntry(n) == [tag |-> TRUE, stem |-> n, init |-> FALSE]

VolumeEntry(path) == [tag |-> FALSE, stem |-> path.stem, init |-> path.init]

\* runtime.iterdir(): every name in the directory, dangling pointers included
iterdir(lnks, vols) ==
    {LinkEntry(n) : n \in DOMAIN lnks} \cup {VolumeEntry(path) : path \in DOMAIN vols}

\* image.exists() follows a pointer to its target
entry_exists(lnks, vols, e) ==
    IF e.tag THEN lnks[e.stem] \in DOMAIN vols ELSE TRUE

\* the user.* attributes _scan reads through the entry, none when it dangles
entry_attrs(lnks, vols, e) ==
    IF ~entry_exists(lnks, vols, e) THEN NoAttrs
    ELSE IF e.tag THEN vols[lnks[e.stem]].attrs
    ELSE vols[[stem |-> e.stem, init |-> e.init]].attrs

\* (a scan that registers an entry only after it was found to exist)
scan_existing(lnks, vols) ==
    [e \in {x \in iterdir(lnks, vols) : entry_exists(lnks, vols, x)} |->
        entry_attrs(lnks, vols, e)]

\* _scan: the name is registered before the existence test, so the keys of
\* r.images are all the names of the directory
scan(lnks, vols) ==
    [e \in iterdir(lnks, vols) |-> entry_attrs(lnks, vols, e)]

\* image.startswith('tag')
startswith_tag(e) == e.tag

wipeFrame == <<context, pc, args, df, parent_hash, current_build_step, cleanup_step,
               outcome, builds, base_hash, links_at_start, hit, touched, executed,
               stray, calls, rpc, rname, rimage, rresult, rpub, lookups,
               file, fpos, current_line, ppc>>

\* r = ImageStorage(args.runtime)
WipeScan ==
    /\ pc = "idle"
    /\ wpc # "removing"
    /\ images' = scan(links, volumes)
    /\ wleft' = DOMAIN images'
    /\ wpc' = IF wleft' = {} THEN "done" ELSE "removing"
    /\ UNCHANGED <<volumes, links>>
    /\ UNCHANGED wipeFrame

\* one iteration of the loop over r.images.keys(), in directory order
WipeRemove ==
    /\ wpc = "removing"
    /\ \E e \in wleft :
        /\ wleft' = wleft \ {e}
        /\ IF startswith_tag(e)
           THEN IF e.stem \in DOMAIN links
                THEN /\ links' = [n \in DOMAIN links \ {e.stem} |-> links[n]]
                     /\ wpc' = IF wleft' = {} THEN "done" ELSE "removing"
                ELSE /\ links' = links
                     /\ wpc' = "FileNotFoundError"
           ELSE links' = links /\ wpc' = IF wleft' = {} THEN "done" ELSE "removing"
        /\ volumes' = IF startswith_tag(e)
                      THEN volumes
                      ELSE btrfs_subvol_delete(volumes, [stem |-> e.stem, init |-> e.init])
    /\ UNCHANGED images
    /\ UNCHANGED wipeFrame

Wipe == WipeScan \/ WipeRemove

\* Builds and wipes of one invoker: a build starts only between wipes
BuildBetweenWipes == wpc # "removing" /\ Build

NextWipe == BuildBetweenWipes \/ Wipe

SpecWipe == Init /\ [][NextWipe]_vars

\* C11: when a wipe completes the runtime directory holds no entry at all:
\* every sealed volume, working volume and pointer (dangling and temporary
\* ones included) is gone, and no removal raises.
C11_WipeEmptiesStore ==
    /\ [](wpc \in {"idle", "removing", "done"})
    /\ [][(wpc # "done" /\ wpc' = "done")
            => (DOMAIN volumes' = {} /\ DOMAIN links' = {})]_vars

\* A wipe has removed a sealed volume, a working volume and a pointer.
C11_Witness ==
    /\ wpc = "done"
    /\ DOMAIN volumes = {} /\ DOMAIN links = {}
    /\ \E e \in DOMAIN images : e.tag
    /\ \E e \in DOMAIN images : ~e.tag /\ e.init
    /\ \E e \in DOMAIN images : ~e.tag /\ ~e.init


(***************************************************************************)
(* The specification of the hash chain alone: a Dockerfile is parsed (and  *)
(* parsed again, as each invocation of the program does), its hash chain   *)
(* is computed for some parent hash, and the sources in the build context  *)
(* are modified in between.                                                *)
(***************************************************************************)
HashDockerfiles ==
    {Parser("scratch", e, c) : e \in Envs, c \in SeqsUpTo(Steps, MaxSteps)}

\* parent hashes: the root, and a base image
Parents == {"", hexdigest("runs d")}

HashInit ==
    /\ df \in HashDockerfiles
    /\ context = [f \in Files |-> 1]
    /\ calls = <<>>
    /\ volumes = NoVolumes
    /\ links = NoLinks
    /\ pc = "idle"
    /\ args = [no_cache |-> FALSE, rm |-> FALSE, tag |-> None]
    /\ parent_hash = ""
    /\ current_build_step = 0
    /\ cleanup_step = 0
    /\ outcome = "none"
    /\ builds = 0
    /\ base_hash = ""
    /\ links_at_start = NoLinks
    /\ hit = {} /\ touched = {} /\ executed = {} /\ stray = {}
    /\ rpc = "idle" /\ rname = None /\ rimage = None /\ rresult = "none"
    /\ rpub = FALSE
    /\ lookups = 0
    /\ wpc = "idle" /\ images = <<>> /\ wleft = {}
    /\ file = <<>> /\ fpos = 0 /\ current_line = <<>> /\ ppc = "done"

hashFrame == <<volumes, links, pc, args, parent_hash, current_build_step, cleanup_step,
               outcome, builds, base_hash, links_at_start, hit, touched, executed,
               stray, rpc, rname, rimage, rresult, rpub, lookups,
               wpc, images, wleft, file, fpos, current_line, ppc>>

\* df.calc_build_hashes(parent_hash=parent)
HashCalc(parent) ==
    /\ Len(calls) < MaxCalls
    /\ df' = calc_build_hashes(df, parent)
    /\ calls' = Append(calls, [parent |-> parent, context |-> context,
                               before |-> Len(df.build_hashes),
                               hashes |-> df'.build_hashes])
    /\ UNCHANGED context /\ UNCHANGED hashFrame

\* DockerfileParser(dockerfile) on the same file: a new parser object
HashParse ==
    /\ df.build_hashes # <<>>
    /\ Len(calls) < MaxCalls
    /\ df' = Parser(df.from_image, df.env, df.build_commands)
    /\ UNCHANGED <<context, calls>> /\ UNCHANGED hashFrame

\* a source file of the build context is modified
HashTouch ==
    /\ \E f \in Files :
          /\ context[f] < MaxMtime
          /\ context' = [context EXCEPT ![f] = @ + 1]
    /\ UNCHANGED <<df, calls>> /\ UNCHANGED hashFrame

NextHash ==
    \/ \E parent \in Parents : HashCalc(parent)
    \/ HashParse
    \/ HashTouch

SpecHash == HashInit /\ [][NextHash]_vars

\* the calls made on a parser object fresh from the constructor
FreshCalls == {k \in DOMAIN calls : calls[k].before = 0}

\* the chain a build computes for `commands` on top of `parent`
ChainOf(commands, parent) ==
    calc_build_hashes(Parser("scratch", EmptyEnv, commands), parent).build_hashes

\* C3: a COPY step's hash depends on the newest modification time among its
\* sources: of two chains computed for the same Dockerfile and parent, the
\* second after a source of COPY step i got newer, the hashes of step i and
\* of every later step differ.
C3_CopyHashFollowsMtime ==
    \A k1 \in FreshCalls, k2 \in FreshCalls :
      \A i \in DOMAIN df.build_commands :
        (/\ calls[k1].parent = calls[k2].parent
         /\ df.build_commands[i][1] = "copy"
         /\ newest_file(calls[k1].context, df.build_commands[i][2])
              < newest_file(calls[k2].context, df.build_commands[i][2]))
        => \A j \in i..Len(df.build_commands) :
              calls[k1].hashes[j] # calls[k2].hashes[j]

\* C4: changing only the argument of step i changes hash[i] and every later
\* hash and leaves every earlier hash as it was.
C4_ChainPropagation ==
    \A k \in FreshCalls :
      \A i \in DOMAIN df.build_commands :
        \A a \in ArgStrings \ {df.build_commands[i][2]} :
          LET changed == [df.build_commands EXCEPT ![i] = <<@[1], a>>]
              other == ChainOf(changed, calls[k].parent)
          IN  /\ Len(calls[k].hashes) = Len(other)
              /\ \A j \in DOMAIN other :
                    IF j < i THEN other[j] = calls[k].hashes[j]
                    ELSE other[j] # calls[k].hashes[j]

C4_Witness ==
    /\ FreshCalls # {}
    /\ Len(df.build_commands) = MaxSteps
    /\ Len(df.build_hashes) = MaxSteps

\* C5: the hash of step i is a function of the parent hash and steps 0..i
\* alone, whatever the later steps, the ENV bindings and the number of times
\* the chain was computed before, and the chain has one hash per build step.
C5_ChainIsFunctionOfPrefix ==
    \A k \in DOMAIN calls :
      /\ Len(calls[k].hashes) = Len(df.build_commands)
      /\ \A d \in HashDockerfiles :
           \A i \in DOMAIN df.build_commands :
             (/\ i <= Len(d.build_commands)
              /\ SubSeq(d.build_commands, 1, i) = SubSeq(df.build_commands, 1, i))
             => calls[k].hashes[i] = calc_build_hashes(d, calls[k].parent).build_hashes[i]


(***************************************************************************)
(* Properties of build() and of tag lookups.                               *)
(***************************************************************************)
Building == pc # "idle"

Succeeded == pc = "idle" /\ outcome \in {"ok", "already_built"}

\* the tag pointer tag-<name> as a value: its target if there is one
TagOf(lnks, name) == IF name \in DOMAIN lnks THEN {lnks[name]} ELSE {}

\* C1: a sealed target volume whose recorded parent_hash (missing: "") is
\* not the parent hash expected for the step, the root hash "" included, is
\* never a cache hit when caching is enabled: it is deleted and the step is
\* executed again.
C1_StaleParentNeverHit ==
    [][LET step == current_build_step
           final == final_target
       IN  (/\ pc = "checks"
            /\ final \in DOMAIN volumes
            /\ ~args.no_cache
            /\ getxattr(volumes, final, "user.parent_hash", "") # parent_hash)
           => /\ step \notin hit'
              /\ pc' # "idle" => (pc' = "incomplete" /\ final \notin DOMAIN volumes')
      ]_vars

\* C2: a step treated as a cache hit invokes no execution backend and
\* creates, snapshots or deletes no volume; it only moves the rolling parent
\* hash on to the step's hash.
C2_CacheHitHasNoEffect ==
    /\ [][\A step \in hit' \ hit :
            /\ volumes' = volumes
            /\ links' = links
            /\ executed' = executed
            /\ touched' = touched
            /\ parent_hash' = df.build_hashes[step + 1]]_vars
    /\ [](hit \cap (touched \cup executed) = {})

C2_Witness ==
    /\ hit # {}
    /\ executed # {}
    /\ outcome = "ok"

\* C7: a working volume left by an interrupted build is never used: when
\* the step's working volume is derived the stray one is gone, the volume
\* the backend runs on is a fresh copy of the parent (empty for a root), and
\* the steps the build has got past have their sealed volume, the stray one
\* of a step the build sealed being gone.
C7_StrayWorkingVolumeNeverUsed ==
    /\ (pc = "derive" /\ current_build_step \in stray) => target \notin DOMAIN volumes
    /\ (pc = "exec" /\ current_build_step \in stray) =>
          /\ target \in DOMAIN volumes
          /\ ~volumes[target].ro
          /\ volumes[target].content =
                IF parent_hash = "" THEN <<>> ELSE volumes[Sealed(parent_hash)].content
    /\ pc \in {"checks", "incomplete", "derive", "exec", "seal_parent", "seal_remove",
               "seal_cmd", "snapshot", "delete_target"} =>
          \A step \in stray :
             step < current_build_step =>
                /\ Sealed(df.build_hashes[step + 1]) \in DOMAIN volumes
                /\ step \in executed => Working(df.build_hashes[step + 1]) \notin DOMAIN volumes
    /\ (outcome = "ok" /\ pc = "idle") =>
          /\ Sealed(Last(df.build_hashes)) \in DOMAIN volumes
          /\ \A step \in stray \cap executed :
                Working(df.build_hashes[step + 1]) \notin DOMAIN volumes

C7_Witness ==
    /\ outcome = "ok" /\ pc = "idle"
    /\ Len(df.build_hashes) = 2
    /\ 1 \in stray \cap executed
    /\ 0 \in hit

\* the build that starts in this step is a second build of the Dockerfile
\* just built with success, caching enabled both times, nothing else changed
SecondBuildStarts ==
    /\ Succeeded
    /\ builds' = builds + 1
    /\ df.build_commands # <<>>
    /\ df'.build_commands = df.build_commands
    /\ df'.from_image = df.from_image
    /\ df.from_image # "scratch" =>
          find_last_build_by_name(links, volumes, df.from_image) = base_hash
    /\ ~args.no_cache
    /\ ~args'.no_cache

ShortCircuits ==
    /\ pc' = "idle"
    /\ outcome' = "already_built"
    /\ volumes' = volumes
    /\ links' = links
    /\ executed' = {}
    /\ Last(df'.build_hashes) = Last(df.build_hashes)

\* C8 as stated: for every value of --rm, the second of two successive
\* successful builds of a Dockerfile with caching enabled takes the "already
\* built" short-circuit, changes no volume, and has the same final hash.
C8_SecondBuildShortCircuits ==
    [][(SecondBuildStarts /\ args'.rm = args.rm) => ShortCircuits]_vars

\* C8 amended: the same when the second build is run with --rm enabled (the
\* short-circuit is only taken with intermediate removal requested).
C8_SecondBuildWithRmShortCircuits ==
    [][(SecondBuildStarts /\ args'.rm) => ShortCircuits]_vars

C8_Witness ==
    /\ builds = 2
    /\ outcome = "already_built"
    /\ Len(df.build_hashes) = 2
    /\ args.rm
    /\ Sealed(df.build_hashes[1]) \notin DOMAIN volumes

\* C10: the pointer tag-<name> is written only once every step is sealed
\* or served from cache and the cleanup is over; what is written is the
\* sealed volume of the final step's hash, which exists then; a build that
\* ends in error leaves every tag pointer as it was.
C10_TagOnlyAfterSuccess ==
    /\ [](pc \in PublicationPcs =>
            /\ current_build_step = total_build_steps
            /\ \A step \in 0..(total_build_steps - 1) : step \in hit \cup executed
            /\ args.rm => cleanup_step = total_build_steps - 1
            /\ parent_hash = Last(df.build_hashes)
            /\ Sealed(Last(df.build_hashes)) \in DOMAIN volumes)
    /\ [][\A name \in TagNames :
            TagOf(links', name) # TagOf(links, name) =>
               /\ pc = "tag_replace"
               /\ args.tag = name
               /\ links'[name] = Sealed(Last(df.build_hashes))
               /\ links'[name] \in DOMAIN volumes'
               /\ outcome' = "ok"]_vars
    /\ []((pc = "idle" /\ outcome = "error") =>
            \A name \in TagNames : TagOf(links, name) = TagOf(links_at_start, name))

C10_Witness ==
    /\ pc = "idle" /\ outcome = "ok"
    /\ builds = 2
    /\ args.tag \in DOMAIN links
    /\ args.tag \in DOMAIN links_at_start
    /\ links[args.tag] # links_at_start[args.tag]
    /\ args.rm /\ Len(df.build_hashes) = 2

\* the names of the sealed volumes of the store
SealedNames(vols) == {name_of(p) : p \in {q \in DOMAIN vols : ~q.init}}

\* C6: a tag lookup returns a volume name only if the tag pointer exists,
\* its target exists and the target is no working volume, and absent in
\* every other case; no lookup ever returns a working volume.
C6_LookupNeverWorkingVolume ==
    /\ \A name \in TagNames :
          LET found == find_last_build_by_name(links, volumes, name)
              valid == /\ name \in DOMAIN links
                       /\ links[name] \in DOMAIN volumes
                       /\ ~links[name].init
          IN  /\ valid => found = name_of(links[name])
              /\ ~valid => found = None
              /\ found # None => found \in SealedNames(volumes)
    /\ (rpc = "idle" /\ rresult \notin {"none", None, "OSError"}) =>
          /\ ~rimage.init
          /\ rresult = name_of(rimage)

\* a lookup has returned the tag's target, and the tag dangles since
C6_Witness ==
    /\ rpc = "idle"
    /\ rname \in DOMAIN links
    /\ rresult = name_of(links[rname])
    /\ links[rname] \notin DOMAIN volumes
    /\ find_last_build_by_name(links, volumes, rname) = None

\* C9: with tag-<name> resolving to a sealed volume, a lookup of <name> that
\* runs while a build publishes that tag (remove a leftover temporary
\* pointer, create the temporary pointer, rename it over the tag) returns
\* the old target or the new one, never absent.
C9_PublicationIsAtomic ==
    (/\ rpub
     /\ rpc = "idle"
     /\ rname \in DOMAIN links_at_start
     /\ links_at_start[rname] \in DOMAIN volumes
     /\ ~links_at_start[rname].init)
    => rresult \in {name_of(links_at_start[rname]), Last(df.build_hashes)}

C9_Witness ==
    /\ rpub
    /\ rpc = "idle"
    /\ rname \in DOMAIN links_at_start
    /\ links_at_start[rname] \in DOMAIN volumes
    /\ rresult = Last(df.build_hashes)
    /\ rresult # name_of(links_at_start[rname])


(***************************************************************************)
(* Sealing, failure and cleanup of a build (Spec)                          *)
(***************************************************************************)
\* the cmd.* attributes among the user attributes of a volume
CmdAttrs(attrs) == {key \in DOMAIN attrs : key # "user.parent_hash"}

\* C13: every sealed volume produced by a step of kind k with argument a
\* carries exactly one cmd.* attribute, cmd.k = a; no cmd.* attribute of an
\* ancestor survives sealing.
C13_ExactlyOneCmdAttr ==
    \A p \in DOMAIN volumes :
        ~p.init =>
            LET step == Last(volumes[p].content)
            IN  /\ CmdAttrs(volumes[p].attrs) = {"user.cmd." \o step[1]}
                /\ volumes[p].attrs["user.cmd." \o step[1]] = step[2]


\* the rolling parent hash step i of the current build is derived from
RollingParent(i) == IF i = 0 THEN base_hash ELSE df.build_hashes[i]

\* C14: at every point of a build, interrupted or not, each sealed volume
\* the build has created carries parent_hash = the rolling parent hash its
\* working volume was derived from (the previous step's hash, the base
\* image's hash for the first step, "" for scratch), and holds that
\* parent's files followed by its own step.
C14_SealedCarriesParentHash ==
    \A i \in executed :
        LET final == Sealed(df.build_hashes[i + 1])
            parent == Sealed(RollingParent(i))
        IN  final \in DOMAIN volumes =>
                /\ volumes[final].ro
                /\ "user.parent_hash" \in DOMAIN volumes[final].attrs
                /\ volumes[final].attrs["user.parent_hash"] = RollingParent(i)
                /\ RollingParent(i) = "" => Len(volumes[final].content) = 1
                /\ (RollingParent(i) # "" /\ parent \in DOMAIN volumes) =>
                        volumes[final].content =
                            Append(volumes[parent].content, df.build_commands[i + 1])

\* A build was interrupted after it had sealed its second step: both sealed
\* volumes are in the store, the second one naming the first as its parent.
C14_Witness ==
    /\ pc = "idle" /\ outcome = "interrupted"
    /\ executed = {0, 1}
    /\ Sealed(df.build_hashes[1]) \in DOMAIN volumes
    /\ Sealed(df.build_hashes[2]) \in DOMAIN volumes
    /\ volumes[Sealed(df.build_hashes[1])].attrs["user.parent_hash"] = ""
    /\ volumes[Sealed(df.build_hashes[2])].attrs["user.parent_hash"] = df.build_hashes[1]


\* The build has ended because the execution backend failed at the step
\* current_build_step
ExecFailed ==
    /\ pc = "idle" /\ outcome = "error"
    /\ current_build_step < Len(df.build_hashes)
    /\ current_build_step \in executed

\* C15: when the execution backend fails at step i the build ends in error:
\* no later step is looked at, executed or sealed, step i is not sealed, no
\* cleanup has run and no pointer was written; the sealed volumes of the
\* steps before i are in place; and no sealed volume ever holds the files
\* of a failed step.
C15_ExecFailureAbortsBuild ==
    /\ ExecFailed =>
        LET i == current_build_step
        IN  /\ executed \cup hit \cup touched \subseteq 0..i
            /\ Sealed(df.build_hashes[i + 1]) \notin DOMAIN volumes
            /\ cleanup_step = 0
            /\ links = links_at_start
            /\ \A j \in 0..(i - 1) : Sealed(df.build_hashes[j + 1]) \in DOMAIN volumes
    /\ \A p \in DOMAIN volumes :
        ~p.init => \A k \in 1..Len(volumes[p].content) : Len(volumes[p].content[k]) = 2

\* A build with --rm and a tag failed at its second step, leaving the files
\* the backend wrote in the working volume and the first step sealed.
C15_Witness ==
    /\ ExecFailed
    /\ current_build_step = 1
    /\ args.rm /\ args.tag # None
    /\ Sealed(df.build_hashes[1]) \in DOMAIN volumes
    /\ Working(df.build_hashes[2]) \in DOMAIN volumes
    /\ \E k \in 1..Len(volumes[Working(df.build_hashes[2])].content) :
            Len(volumes[Working(df.build_hashes[2])].content[k]) = 3


(***************************************************************************)
(* Identity of step hashes (SpecHash)                                      *)
(***************************************************************************)
\* C16: a step hash identifies its derivation: when the hash of step i of a
\* chain equals the hash of step j of the chain of any plan (any commands
\* on any parent), then i = j, the parents are equal and the steps up to i
\* are equal in kind and argument.
C16_HashIdentifiesDerivation ==
    \A k \in FreshCalls :
      \A d \in HashDockerfiles, parent \in Parents :
        LET other == ChainOf(d.build_commands, parent)
        IN  \A i \in DOMAIN calls[k].hashes, j \in DOMAIN other :
              calls[k].hashes[i] = other[j] =>
                /\ i = j
                /\ calls[k].parent = parent
                /\ SubSeq(df.build_commands, 1, i) = SubSeq(d.build_commands, 1, i)


(***************************************************************************)
(* Cleanup, pointers and working volumes after a build (Spec)              *)
(***************************************************************************)
\* C17: after a build with --rm that has run its step loop and succeeded,
\* no sealed volume of a step before the last is in the store and the
\* sealed volume of the last step is.
C17_CleanupKeepsOnlyFinal ==
    (pc = "idle" /\ outcome = "ok" /\ args.rm) =>
        /\ \A j \in 1..(Len(df.build_hashes) - 1) :
                Sealed(df.build_hashes[j]) \notin DOMAIN volumes
        /\ Sealed(Last(df.build_hashes)) \in DOMAIN volumes

\* A two-step build with --rm succeeded, its first step served from cache
\* and its second step executed; the cleanup has visited the first step.
C17_Witness ==
    /\ pc = "idle" /\ outcome = "ok" /\ args.rm
    /\ Len(df.build_hashes) = 2
    /\ hit = {0} /\ executed = {1}
    /\ cleanup_step = 1
    /\ Sealed(df.build_hashes[1]) \notin DOMAIN volumes
    /\ Sealed(df.build_hashes[2]) \in DOMAIN volumes


\* C18: every build that is given a tag name and returns without error
\* (after its step loop, or by the "already built" short-circuit) leaves the
\* pointer of that name resolving to the sealed volume of the final step.
C18_TaggedBuildLeavesTag ==
    (pc = "idle" /\ outcome \in {"ok", "already_built"} /\ args.tag # None) =>
        find_last_build_by_name(links, volumes, args.tag) = Last(df.build_hashes)

\* C19: no step of a build deletes a sealed volume that a pointer resolves
\* to: a tag that resolves to a sealed volume keeps resolving to one.
C19_TaggedVolumeNeverDeleted ==
    [][\A name \in TagNames :
          (/\ name \in DOMAIN links
           /\ ~links[name].init
           /\ links[name] \in DOMAIN volumes)
          => (/\ name \in DOMAIN links'
              /\ ~links'[name].init
              /\ links'[name] \in DOMAIN volumes')]_vars

\* C20: after a build has returned successfully the store holds no working
\* volume of any step of that build, whatever an interrupted earlier build
\* left behind.
C20_NoWorkingVolumeAfterSuccess ==
    Succeeded =>
        \A i \in 1..Len(df.build_hashes) :
            Working(df.build_hashes[i]) \notin DOMAIN volumes


\* C21: a temporary pointer left behind by an interrupted publication never
\* makes a later publication of the same tag fail, whatever it points to:
\* no step of a publication raises, and once the build has returned the tag
\* resolves to the new final volume and no temporary pointer of it remains.
C21_LeftoverTmpNeverFailsPublication ==
    /\ [][(pc \in PublicationPcs) => ~(pc' = "idle" /\ outcome' = "error")]_vars
    /\ []((pc = "idle" /\ outcome = "ok" /\ args.tag # None) =>
            /\ TagOf(links, args.tag) = {Sealed(Last(df.build_hashes))}
            /\ tmp_name(args.tag) \notin DOMAIN links)

====
